---------------------------- MODULE Spec2Model ----------------------------
(***************************************************************************)
(* A model of irishep: the Dataset wrapper over a Spark dataframe          *)
(* (src/irishep/datasets/dataset.py) and the Accumulator adapter           *)
(* (src/irishep/analysis/accumulator.py).                                  *)
(*                                                                         *)
(* Three specifications share the variables below:                         *)
(*   SpecColumns  Dataset.columns_for_physics_objects on bounded inputs    *)
(*   Spec         Dataset construction and Dataset.select_columns          *)
(*   SpecAcc      Accumulator.zero / Accumulator.addInPlace, called        *)
(*                directly and through the accumulator protocol            *)
(***************************************************************************)
EXTENDS Integers, Sequences, FiniteSets, TLC

VARIABLES
    d,          \* the Dataset the caller holds: [name, dataframe]
    out,        \* the record of the last call made on Dataset
    heap,       \* the list objects of the accumulator run: id -> contents
    accValue,   \* the driver-side accumulator's value
    local,      \* the task-side accumulator's value (NotRunning between tasks)
    merged,     \* the partial values the driver has merged, in order
    call        \* the record of the last Accumulator call

vars == <<d, out, heap, accValue, local, merged, call>>

----------------------------------------------------------------------------
(* Bounds of the model                                                     *)

MaxColumns == 3     \* length of a column list given to columns_for_physics_objects
MaxGroups == 2      \* length of a physics_objects list
MaxRows == 1        \* rows of a dataframe
MaxRequested == 2   \* length of the list given to select_columns
MaxObjects == 4     \* list objects allocated in an accumulator run
MaxTerm == 2        \* the entries a task adds are 1..MaxTerm
MaxMerges == 3      \* partial values the driver merges in a run

----------------------------------------------------------------------------
(* Python strings.  A column or group name is a TLA+ string; Chars gives   *)
(* its characters, which is what the re module reads.                      *)

Chars(s) ==
    CASE s = "run" -> <<"r", "u", "n">>
      [] s = "luminosityBlock" -> <<"l", "u", "m", "i", "n", "o", "s", "i", "t",
                                    "y", "B", "l", "o", "c", "k">>
      [] s = "event" -> <<"e", "v", "e", "n", "t">>
      [] s = "dataset" -> <<"d", "a", "t", "a", "s", "e", "t">>
      [] s = "Jet" -> <<"J", "e", "t">>
      [] s = "Mu" -> <<"M", "u">>
      [] s = "Tau" -> <<"T", "a", "u">>
      [] s = "nJet" -> <<"n", "J", "e", "t">>
      [] s = "nJetX" -> <<"n", "J", "e", "t", "X">>
      [] s = "Jet_pt" -> <<"J", "e", "t", "_", "p", "t">>
      [] s = "JetFoo" -> <<"J", "e", "t", "F", "o", "o">>
      [] s = "Jet_mask" -> <<"J", "e", "t", "_", "m", "a", "s", "k">>
      [] s = "nMu" -> <<"n", "M", "u">>
      [] s = "Mu_pt" -> <<"M", "u", "_", "p", "t">>
      [] s = "MuFoo" -> <<"M", "u", "F", "o", "o">>

\* str.join on lists of character sequences
RECURSIVE Join(_, _)
Join(sep, parts) ==
    IF Len(parts) = 0 THEN <<>>
    ELSE IF Len(parts) = 1 THEN parts[1]
    ELSE parts[1] \o sep \o Join(sep, Tail(parts))

\* str.startswith
StartsWith(s, prefix) ==
    /\ Len(prefix) <= Len(s)
    /\ SubSeq(s, 1, Len(prefix)) = prefix

----------------------------------------------------------------------------
(* The part of Python's re that the composite pattern uses: literals, ".", *)
(* "*", groups and alternation.  A match is searched from position 0 of    *)
(* the subject; each operator maps a set of positions reached so far to    *)
(* the set of positions reachable after its piece of the pattern.          *)

\* nesting depth of position j relative to position lo of the pattern
Depth(re, lo, j) ==
    Cardinality({k \in lo..(j - 1) : re[k] = "("})
        - Cardinality({k \in lo..(j - 1) : re[k] = ")"})

\* the ")" that closes the "(" at position i
CloseParen(re, i) ==
    CHOOSE j \in (i + 1)..Len(re) :
        /\ re[j] = ")"
        /\ Depth(re, i, j + 1) = 0
        /\ \A k \in (i + 1)..(j - 1) : ~(re[k] = ")" /\ Depth(re, i, k + 1) = 0)

\* the "|" of re[lo..hi] that are not inside a group
TopBars(re, lo, hi) ==
    {j \in lo..hi : re[j] = "|" /\ Depth(re, lo, j) = 0}

Min(S) == CHOOSE x \in S : \A y \in S : x <= y

RECURSIVE MatchAlt(_, _, _, _, _)
RECURSIVE MatchConcat(_, _, _, _, _)
RECURSIVE MatchStar(_, _, _, _, _)

\* one atom re[lo..e]: a group, "." or a literal character
MatchAtom(re, lo, e, s, P) ==
    IF re[lo] = "(" THEN MatchAlt(re, lo + 1, e - 1, s, P)
    ELSE IF re[lo] = "." THEN {p + 1 : p \in {q \in P : q < Len(s)}}
    ELSE {p + 1 : p \in {q \in P : q < Len(s) /\ s[q + 1] = re[lo]}}

MatchStar(re, lo, e, s, P) ==
    LET Q == P \cup MatchAtom(re, lo, e, s, P)
    IN  IF Q = P THEN P ELSE MatchStar(re, lo, e, s, Q)

MatchConcat(re, lo, hi, s, P) ==
    IF lo > hi THEN P
    ELSE LET e == IF re[lo] = "(" THEN CloseParen(re, lo) ELSE lo
             starred == e + 1 <= hi /\ re[e + 1] = "*"
             Q == IF starred THEN MatchStar(re, lo, e, s, P)
                  ELSE MatchAtom(re, lo, e, s, P)
         IN  MatchConcat(re, IF starred THEN e + 2 ELSE e + 1, hi, s, Q)

MatchAlt(re, lo, hi, s, P) ==
    LET bars == TopBars(re, lo, hi)
    IN  IF bars = {} THEN MatchConcat(re, lo, hi, s, P)
        ELSE LET b == Min(bars)
             IN  MatchConcat(re, lo, b - 1, s, P)
                     \cup MatchAlt(re, b + 1, hi, s, P)

\* re.compile(pattern).match(s) is not None: some prefix of s matches
re_match(pattern, s) ==
    MatchAlt(pattern, 1, Len(pattern), s, {0}) # {}

----------------------------------------------------------------------------
(* The Spark dataframe that Dataset wraps.  A dataframe is                 *)
(*   dtypes   the (name, type) pairs of its columns, in order              *)
(*   count    its number of rows                                           *)
(*   dataset  the value of its "dataset" column in each row, <<>> when it  *)
(*            has no such column                                           *)
(* The values of the other columns are not read by Dataset.                *)

Range(f) == {f[i] : i \in DOMAIN f}

\* DataFrame.columns
df_columns(dataframe) ==
    [i \in 1..Len(dataframe.dtypes) |-> dataframe.dtypes[i][1]]

\* the type of the column named c
TypeOf(dataframe, c) ==
    LET i == CHOOSE k \in 1..Len(dataframe.dtypes) : dataframe.dtypes[k][1] = c
    IN  dataframe.dtypes[i][2]

\* DataFrame.withColumn(colName, lit(value)): a constant string column,
\* appended, or put in the place of a column of that name
withColumn(dataframe, colName, value) ==
    LET names == df_columns(dataframe)
        entry == <<colName, "string">>
    IN  [dtypes |-> IF colName \in Range(names)
                    THEN [i \in 1..Len(names) |->
                            IF names[i] = colName THEN entry
                            ELSE dataframe.dtypes[i]]
                    ELSE Append(dataframe.dtypes, entry),
         count |-> dataframe.count,
         dataset |-> IF colName = "dataset"
                     THEN [i \in 1..dataframe.count |-> value]
                     ELSE dataframe.dataset]

\* the type Spark gives a column cast to the type written as `to`
CastType(to) ==
    CASE to = "array<int >" -> "array<int>"
      [] OTHER -> to

\* A column expression handed to DataFrame.select: the column's name and the
\* type it is cast to (NoCast when it is the column itself).
NoCast == ""

Col(c) == [name |-> c, cast |-> NoCast]

\* whether DataFrame.select(cols) raises AnalysisException: a column that
\* the dataframe does not have
SelectRaises(dataframe, cols) ==
    \E i \in 1..Len(cols) : cols[i].name \notin Range(df_columns(dataframe))

\* DataFrame.select(cols), when it does not raise; a cast column keeps the
\* column's name
Select(dataframe, cols) ==
    [dtypes |-> [i \in 1..Len(cols) |->
                    <<cols[i].name,
                      IF cols[i].cast = NoCast
                      THEN TypeOf(dataframe, cols[i].name)
                      ELSE CastType(cols[i].cast)>>],
     count |-> dataframe.count,
     dataset |-> IF \E i \in 1..Len(cols) : cols[i].name = "dataset"
                 THEN dataframe.dataset
                 ELSE <<>>]

----------------------------------------------------------------------------
(* class Dataset                                                           *)

\* Dataset.pyarrow_column_coverters: type name -> the type it is cast to
pyarrow_column_coverters == [t \in {"array<boolean>"} |-> "array<int >"]

\* Dataset._pyarrow_compatble_column
pyarrow_compatble_column_nocast(col, col_type) == col

pyarrow_compatble_column(col, col_type) ==
    IF col_type \in DOMAIN pyarrow_column_coverters
    THEN [col EXCEPT !.cast = pyarrow_column_coverters[col_type]]
    ELSE col

\* Dataset.__init__
Dataset_init_retag(name, dataframe) ==
    [name |-> name, dataframe |-> withColumn(dataframe, "dataset", name)]

Dataset_init_asis(name, dataframe) ==
    [name |-> name, dataframe |-> dataframe]

Dataset_init(name, dataframe) ==
    [name |-> name,
     dataframe |-> IF "dataset" \notin Range(df_columns(dataframe))
                   THEN withColumn(dataframe, "dataset", name)
                   ELSE dataframe]

\* Dataset.columns
columns(self) == df_columns(self.dataframe)

\* Dataset.columns_with_types
columns_with_types(self) == self.dataframe.dtypes

\* Dataset.columns_for_physics_objects; physics_objects is a list of names
physics_obj_count_cols(physics_objects) ==
    [i \in 1..Len(physics_objects) |-> <<"n">> \o Chars(physics_objects[i])]

physics_obj_count_re(physics_objects) ==
    <<"(">> \o Join(<<")", "|", "(">>, physics_obj_count_cols(physics_objects))
            \o <<")">>

physics_obj_re(physics_objects) ==
    <<"(">> \o Join(<<")", "|", "(">>,
                    [i \in 1..Len(physics_objects) |-> Chars(physics_objects[i])])
            \o <<")", "_", ".", "*">>

composite_re(physics_objects) ==
    <<"(">> \o physics_obj_re(physics_objects) \o <<")", "|", "(">>
            \o physics_obj_count_re(physics_objects) \o <<")">>

columns_for_physics_objects(self, physics_objects) ==
    LET r == composite_re(physics_objects)
        Matches(col) == re_match(r, Chars(col))
    IN  SelectSeq(columns(self), Matches)

\* the columns select_columns keeps whether or not they are asked for
IdentifyingColumns == {"dataset", "run", "luminosityBlock", "event"}

\* columns2 of select_columns
columns2_requested_only(requested) == Range(requested)

columns2(requested) == Range(requested) \cup IdentifyingColumns

\* the orders list(S) can give the elements of a set
RECURSIVE Orders(_)
Orders(S) ==
    IF S = {} THEN {<<>>}
    ELSE UNION {{<<x>> \o rest : rest \in Orders(S \ {x})} : x \in S}

\* the Dataset the caller holds when no call has returned one
NoDataset == [name |-> "", dataframe |-> [dtypes |-> <<>>, count |-> 0, dataset |-> <<>>]]

\* the names of a dataframe that `names` lacks are dropped, not reported
Projection_dropmissing(dataframe, names) ==
    [raised |-> FALSE,
     dataframe |-> Select(dataframe,
                          SelectSeq([i \in 1..Len(names) |-> Col(names[i])],
                                    LAMBDA c : c.name \in Range(df_columns(dataframe))))]

\* projected of select_columns: self.dataframe.select(list(columns2))
Projection(dataframe, names) ==
    LET cols == [i \in 1..Len(names) |-> Col(names[i])]
    IN  IF SelectRaises(dataframe, cols)
        THEN [raised |-> TRUE, dataframe |-> NoDataset.dataframe]
        ELSE [raised |-> FALSE, dataframe |-> Select(dataframe, cols)]

\* Dataset.select_columns(requested), with list(columns2) giving `order`.
\* The result holds self after the call, whether the call raised, and the
\* Dataset returned.
select_columns_inplace(self, requested, order) ==
    LET projected == Projection(self.dataframe, order)
    IN  IF projected.raised
        THEN [self |-> self, raised |-> TRUE, ret |-> NoDataset]
        ELSE LET columns3 ==
                     [i \in 1..Len(projected.dataframe.dtypes) |->
                        pyarrow_compatble_column(
                            Col(projected.dataframe.dtypes[i][1]),
                            projected.dataframe.dtypes[i][2])]
                 selected == Select(self.dataframe, columns3)
             IN  [self |-> [self EXCEPT !.dataframe = selected],
                  raised |-> FALSE,
                  ret |-> Dataset_init(self.name, selected)]

select_columns(self, requested, order) ==
    LET projected == Projection(self.dataframe, order)
    IN  IF projected.raised
        THEN [self |-> self, raised |-> TRUE, ret |-> NoDataset]
        ELSE LET columns3 ==
                     [i \in 1..Len(projected.dataframe.dtypes) |->
                        pyarrow_compatble_column(
                            Col(projected.dataframe.dtypes[i][1]),
                            projected.dataframe.dtypes[i][2])]
             IN  [self |-> self,
                  raised |-> FALSE,
                  ret |-> Dataset_init(self.name,
                                       Select(self.dataframe, columns3))]

----------------------------------------------------------------------------
(* The calls made on Dataset.  `out` records the last one:                 *)
(*   op         "none", "init", "select_columns" or                        *)
(*              "columns_for_physics_objects"                              *)
(*   self       the Dataset it was called on, as it was before the call    *)
(*   name       the name given to Dataset(name, dataframe)                 *)
(*   dataframe  the dataframe given to Dataset(name, dataframe)            *)
(*   requested  the list given to the call                                 *)
(*   names      set(requested) of the select_columns call that returned    *)
(*              the Dataset held                                           *)
(*   raised     whether the call raised                                    *)
(*   ret        the Dataset returned                                       *)
(*   cols       the list of columns returned                               *)

NoCall ==
    [op |-> "none", self |-> NoDataset, name |-> "",
     dataframe |-> NoDataset.dataframe, requested |-> <<>>, names |-> {},
     raised |-> FALSE, ret |-> NoDataset, cols |-> <<>>]

\* sequences over S of length lo..hi
SeqsOf(S, lo, hi) == UNION {[1..n -> S] : n \in lo..hi}

DatasetNames == {"DY Jets", "TTbar"}

\* the variables of the accumulator run, idle in the Dataset specifications
AccIdle ==
    /\ heap = <<>>
    /\ accValue = [kind |-> "None", id |-> 0]
    /\ local = [kind |-> "NotRunning", id |-> 0]
    /\ merged = <<>>
    /\ call = [op |-> "none"]

accVars == <<heap, accValue, local, merged, call>>

----------------------------------------------------------------------------
(* SpecColumns: columns_for_physics_objects on a Dataset whose columns     *)
(* are any list of at most MaxColumns names of ColumnUniverse.             *)

PhysicsObjects == {"Jet", "Mu", "Tau"}

ColumnUniverse ==
    {"event", "nJet", "nJetX", "Jet_pt", "JetFoo", "nMu", "Mu_pt", "MuFoo"}

InitColumns ==
    /\ \E L \in SeqsOf(ColumnUniverse, 0, MaxColumns) :
           d = Dataset_init("DY Jets",
                            [dtypes |-> [i \in 1..Len(L) |-> <<L[i], "float">>],
                             count |-> 0,
                             dataset |-> <<>>])
    /\ out = NoCall
    /\ AccIdle

ColumnsForPhysicsObjects ==
    /\ \E physics_objects \in SeqsOf(PhysicsObjects, 1, MaxGroups) :
           out' = [NoCall EXCEPT !.op = "columns_for_physics_objects",
                                 !.self = d,
                                 !.requested = physics_objects,
                                 !.cols = columns_for_physics_objects(
                                              d, physics_objects)]
    /\ UNCHANGED <<d, accVars>>

NextColumns == ColumnsForPhysicsObjects

SpecColumns == InitColumns /\ [][NextColumns]_vars

\* a column of the group g: its count column, or g, an underscore and more
InGroup(c, g) ==
    \/ Chars(c) = <<"n">> \o Chars(g)
    \/ StartsWith(Chars(c), Chars(g) \o <<"_">>)

\* C1: for a single group name g, columns_for_physics_objects([g]) returns
\* exactly the columns c with c = "n"+g or c starting with g+"_", in the
\* order of the Dataset's columns; a column that only begins with "n"+g is
\* not returned.
C1_SingleGroupExact ==
    (out.op = "columns_for_physics_objects" /\ Len(out.requested) = 1)
        => out.cols = SelectSeq(columns(out.self),
                                LAMBDA c : InGroup(c, out.requested[1]))

\* C2: for two or more group names, a column is returned exactly when it is
\* the count column of some requested group or starts with some requested
\* group's name and an underscore, whatever the group's position.
C2_EveryGroupExact ==
    (out.op = "columns_for_physics_objects" /\ Len(out.requested) >= 2)
        => \A c \in Range(columns(out.self)) :
               c \in Range(out.cols)
                   <=> \E i \in 1..Len(out.requested) :
                           InGroup(c, out.requested[i])

----------------------------------------------------------------------------
(* Spec: Dataset(name, dataframe) and select_columns.  The caller wraps a  *)
(* dataframe, projects the Dataset it holds, goes on with that Dataset or  *)
(* with the one the projection returned, and may wrap the dataframe of the *)
(* Dataset it holds again, under any name.                                 *)

\* the column lists of the dataframes a caller starts from: one with all
\* the identifying columns but "dataset", one that comes with a "dataset"
\* column, and one without "run" and "luminosityBlock"
RootColumns ==
    {<<"run", "luminosityBlock", "event", "Jet_mask">>,
     <<"dataset", "run", "luminosityBlock", "event">>,
     <<"event", "Jet_mask">>}

RootType(c) ==
    CASE c = "dataset" -> "string"
      [] c = "Jet_mask" -> "array<boolean>"
      [] c = "event" -> "bigint"
      [] OTHER -> "int"

RootDataframes ==
    {[dtypes |-> [i \in 1..Len(L) |-> <<L[i], RootType(L[i])>>],
      count |-> Len(tag),
      dataset |-> IF "dataset" \in Range(L) THEN tag
                  ELSE <<>>] :
        L \in RootColumns, tag \in SeqsOf(DatasetNames, MaxRows, MaxRows)}

\* the names a caller asks select_columns for
RequestUniverse == {"Jet_mask", "event"}

InitCall(name, dataframe) ==
    [NoCall EXCEPT !.op = "init", !.name = name, !.dataframe = dataframe,
                   !.ret = Dataset_init(name, dataframe)]

Init ==
    /\ \E name \in DatasetNames, dataframe \in RootDataframes :
           /\ d = Dataset_init(name, dataframe)
           /\ out = InitCall(name, dataframe)
    /\ AccIdle

\* Dataset(name, dataframe) over the dataframe of the Dataset held
Construct ==
    /\ out.op # "select_columns"
    /\ \E name \in DatasetNames :
           /\ d' = Dataset_init(name, d.dataframe)
           /\ out' = InitCall(name, d.dataframe)
    /\ UNCHANGED accVars

\* The orders of list(columns2) that a call is tried with.  The call raises
\* or not by the set alone, and a call that raises returns nothing to
\* order, so one order stands for all of them there.
OrdersTried(self, requested) ==
    IF columns2(requested) \subseteq Range(columns(self))
    THEN Orders(columns2(requested))
    ELSE {CHOOSE order \in Orders(columns2(requested)) : TRUE}

\* d.select_columns(requested)
SelectColumns ==
    /\ out.op # "select_columns"
    /\ \E requested \in SeqsOf(RequestUniverse, 0, MaxRequested) :
         \E order \in OrdersTried(d, requested) :
           LET r == select_columns(d, requested, order)
           IN  /\ d' = r.self
               /\ out' = [NoCall EXCEPT !.op = "select_columns",
                                        !.self = d,
                                        !.requested = requested,
                                        !.raised = r.raised,
                                        !.ret = r.ret]
    /\ UNCHANGED accVars

\* the caller goes on with the Dataset that select_columns returned; the
\* names it was asked for stay on record
UseResult ==
    /\ out.op = "select_columns"
    /\ ~out.raised
    /\ d' = out.ret
    /\ out' = [NoCall EXCEPT !.op = "used", !.names = Range(out.requested)]
    /\ UNCHANGED accVars

\* the caller goes on with the Dataset it called select_columns on
KeepSource ==
    /\ out.op = "select_columns"
    /\ out' = NoCall
    /\ UNCHANGED <<d, accVars>>

Next == Construct \/ SelectColumns \/ UseResult \/ KeepSource

Spec == Init /\ [][Next]_vars

----------------------------------------------------------------------------
(* Properties of Spec                                                      *)

ColSet(ds) == Range(columns(ds))

\* the (name, type) pairs of a Dataset's columns
ColTypes(ds) == Range(columns_with_types(ds))

\* every row of the "dataset" column holds the Dataset's name
Tagged(ds) ==
    \A i \in 1..Len(ds.dataframe.dataset) : ds.dataframe.dataset[i] = ds.name

HasDatasetColumn(ds) ==
    /\ "dataset" \in ColSet(ds)
    /\ Len(ds.dataframe.dataset) = ds.dataframe.count

Returned == out.op = "select_columns" /\ ~out.raised

\* the Datasets that exist in a state
Held ==
    {d} \cup (IF out.op = "init" \/ Returned THEN {out.ret} ELSE {})

\* a step that is a call of select_columns
SelectStep == out.op # "select_columns" /\ out'.op = "select_columns"

SelectResultIs(S) ==
    /\ ~out.raised
    /\ ColSet(out.ret) = S
    /\ Len(columns(out.ret)) = Cardinality(S)

\* C3 as stated: whenever every requested name is a column of d's table,
\* select_columns returns a Dataset whose columns are exactly the requested
\* ones and "dataset", "run", "luminosityBlock", "event", each once.
C3_AnyDatasetProjects ==
    (out.op = "select_columns" /\ Range(out.requested) \subseteq ColSet(out.self))
        => SelectResultIs(Range(out.requested)
                            \cup {"dataset", "run", "luminosityBlock", "event"})

\* C3, amended: the same, for a Dataset whose table has the columns "run",
\* "luminosityBlock" and "event"; on a table that lacks one of them the call
\* raises and returns nothing.
C3_ProjectsToRequestedAndIdentifying ==
    (out.op = "select_columns" /\ Range(out.requested) \subseteq ColSet(out.self))
        => IF {"run", "luminosityBlock", "event"} \subseteq ColSet(out.self)
           THEN SelectResultIs(Range(out.requested)
                                 \cup {"dataset", "run", "luminosityBlock", "event"})
           ELSE out.raised /\ out.ret = NoDataset

\* a column asked for twice, no identifying column asked for, and a result
C3_Witness ==
    /\ Returned
    /\ out.requested = <<"Jet_mask", "Jet_mask">>
    /\ Len(columns(out.ret)) = 5

\* C4: a requested name that is not a column of the source makes
\* select_columns raise and return no Dataset, and the raising call leaves
\* the source Dataset as it was.
C4_MissingColumnRaises ==
    /\ [](out.op = "select_columns"
            => ((\E i \in 1..Len(out.requested) :
                     out.requested[i] \notin ColSet(out.self))
                  => out.raised /\ out.ret = NoDataset))
    /\ [][(SelectStep /\ out'.raised) => d' = d]_vars

\* the call raised for a requested name alone: the identifying columns exist
C4_Witness ==
    /\ out.op = "select_columns"
    /\ out.raised
    /\ {"dataset", "run", "luminosityBlock", "event"} \subseteq ColSet(out.self)
    /\ "Jet_mask" \in Range(out.requested)
    /\ d = out.self

\* C5: Dataset(name, table) adds a "dataset" column holding name in every
\* row when table has none, and uses table itself, values untouched, when
\* it has one.
C5_ConstructionTagsOnce ==
    out.op = "init"
        => /\ out.ret.name = out.name
           /\ IF "dataset" \in Range(df_columns(out.dataframe))
              THEN out.ret.dataframe = out.dataframe
              ELSE /\ out.ret.dataframe.dtypes
                          = Append(out.dataframe.dtypes, <<"dataset", "string">>)
                   /\ out.ret.dataframe.count = out.dataframe.count
                   /\ out.ret.dataframe.dataset
                          = [i \in 1..out.dataframe.count |-> out.name]

\* a table whose "dataset" values differ from the name was wrapped
C5_Witness ==
    /\ out.op = "init"
    /\ "dataset" \in Range(df_columns(out.dataframe))
    /\ out.dataframe.count > 0
    /\ ~Tagged(out.ret)

\* C6 as stated: every Dataset's table has a "dataset" column and every row
\* of it holds the Dataset's own name.
C6_EveryRowHoldsName ==
    \A ds \in Held : HasDatasetColumn(ds) /\ Tagged(ds)

\* C6, amended: every Dataset's table has a "dataset" column with a value in
\* every row; the rows hold the Dataset's name when construction added the
\* column; a table that came with the column keeps its values; and
\* select_columns returns a Dataset of the same name with the same values,
\* so rows that all hold the name still do after a projection.
C6_DatasetColumnKept ==
    /\ \A ds \in Held : HasDatasetColumn(ds)
    /\ out.op = "init"
         => IF "dataset" \in Range(df_columns(out.dataframe))
            THEN out.ret.dataframe.dataset = out.dataframe.dataset
            ELSE Tagged(out.ret)
    /\ Returned
         => /\ out.ret.name = out.self.name
            /\ out.ret.dataframe.dataset = out.self.dataframe.dataset
            /\ Tagged(out.self) => Tagged(out.ret)

\* a projection of a Dataset whose rows hold its name
C6_Witness ==
    /\ Returned
    /\ out.self.dataframe.count > 0
    /\ Tagged(out.self)
    /\ Tagged(out.ret)
    /\ out.ret # out.self

\* C9: a call of select_columns, returning or raising, leaves the Dataset it
\* is called on as it was, and a Dataset it returns has the same name.
C9_SelectLeavesSource ==
    [][SelectStep
         => /\ d' = d
            /\ out'.self = d
            /\ ~out'.raised => out'.ret.name = d.name]_vars

\* a projection returned a Dataset other than its source
C9_Witness ==
    /\ Returned
    /\ d = out.self
    /\ ColSet(out.ret) # ColSet(d)

\* C10: in the Dataset returned, a column whose source type is
\* array<boolean> has type array<int> and any other column keeps its source
\* type; the call raises only for a column that is missing; and projecting
\* the result again with a list of the same names (the same list included)
\* gives the same columns and types.
C10_CastsAreStable ==
    /\ [](Returned
            => \A c \in ColSet(out.ret) :
                   TypeOf(out.ret.dataframe, c)
                     = IF TypeOf(out.self.dataframe, c) = "array<boolean>"
                       THEN "array<int>"
                       ELSE TypeOf(out.self.dataframe, c))
    /\ []((out.op = "select_columns" /\ out.raised)
            => \E c \in Range(out.requested)
                          \cup {"dataset", "run", "luminosityBlock", "event"} :
                   c \notin ColSet(out.self))
    /\ [][(out.op = "used" /\ out'.op = "select_columns"
             /\ Range(out'.requested) = out.names)
            => /\ ~out'.raised
               /\ ColTypes(out'.ret) = ColTypes(d)]_vars

\* the result of a projection that cast a column was projected again with
\* the same list
C10_Witness ==
    /\ Returned
    /\ out.requested = <<"Jet_mask">>
    /\ TypeOf(out.self.dataframe, "Jet_mask") = "array<int>"
    /\ TypeOf(out.ret.dataframe, "Jet_mask") = "array<int>"
    /\ ColTypes(out.ret) = ColTypes(out.self)

----------------------------------------------------------------------------
(* class Accumulator.  An accumulator value is None or a mergeable object: *)
(* a Python list, whose += extends it in place.  `h` is the heap, the      *)
(* contents of each list object by id.                                     *)

None == [kind |-> "None", id |-> 0]

List(i) == [kind |-> "list", id |-> i]

\* bool(value)
Truthy(h, value) == value.kind = "list" /\ Len(h[value.id]) > 0

\* val1 += val2: a list is extended in place by a list and stays the same
\* object; None on either side raises TypeError
iadd(h, val1, val2) ==
    IF val1.kind = "list" /\ val2.kind = "list"
    THEN [raised |-> FALSE, ret |-> val1,
          heap |-> [h EXCEPT ![val1.id] = h[val1.id] \o h[val2.id]]]
    ELSE [raised |-> TRUE, ret |-> None, heap |-> h]

\* Accumulator.zero
zero(value) == value

\* Accumulator.addInPlace
addInPlace(h, val1, val2) ==
    IF Truthy(h, val1)
    THEN iadd(h, val1, val2)
    ELSE [raised |-> FALSE, ret |-> val2, heap |-> h]

\* the value Accumulator.__init__ registers the accumulator with
InitialValue == None

----------------------------------------------------------------------------
(* SpecAcc.  One job of the accumulator protocol: a task starts from       *)
(* zero(initial value), adds its entries with addInPlace, and the driver   *)
(* merges the task's pickled partial value into its own with addInPlace.   *)
(* A task that added nothing hands back None.  addInPlace is also called   *)
(* directly, on values of its own.  `call` records the last call:          *)
(*   op, site    "zero" or "addInPlace"; "direct", "task" or "driver"      *)
(*   val1, val2  the arguments                                             *)
(*   pre, post   the heap before and after                                 *)
(*   raised, ret whether it raised, and what it returned                   *)

\* the contents of a new list: no entry, or one entry
Contents == {<<>>} \cup {<<k>> : k \in 1..MaxTerm}

CallRecord(op, site, val1, val2, pre, r) ==
    [op |-> op, site |-> site, val1 |-> val1, val2 |-> val2, pre |-> pre,
     raised |-> r.raised, ret |-> r.ret, post |-> r.heap]

NoAccCall ==
    CallRecord("none", "direct", None, None, <<>>,
               [raised |-> FALSE, ret |-> None, heap |-> <<>>])

\* an exception in a task or in the driver's merge ends the job
JobFailed == call.raised /\ call.site # "direct"

InitAcc ==
    /\ d = NoDataset
    /\ out = NoCall
    /\ heap = <<>>
    /\ accValue = InitialValue
    /\ local = [kind |-> "NotRunning", id |-> 0]
    /\ merged = <<>>
    /\ call = NoAccCall

\* the arguments of a direct call: None, or a list made for the call
DirectArgs == [kind : {"None"}, contents : {<<>>}] \cup [kind : {"list"}, contents : Contents]

\* addInPlace(val1, val2) called directly on two values of the caller
AddInPlaceCall ==
    /\ ~JobFailed
    /\ \E a \in DirectArgs, b \in DirectArgs :
         LET pre == <<a.contents, b.contents>>
             val1 == IF a.kind = "None" THEN None ELSE List(1)
             val2 == IF b.kind = "None" THEN None ELSE List(2)
         IN  call' = CallRecord("addInPlace", "direct", val1, val2, pre,
                                addInPlace(pre, val1, val2))
    /\ UNCHANGED <<d, out, heap, accValue, local, merged>>

\* a task deserializes the accumulator: its value is zero(initial value)
TaskStart ==
    /\ ~JobFailed
    /\ local.kind = "NotRunning"
    /\ Len(merged) < MaxMerges
    /\ local' = zero(InitialValue)
    /\ call' = CallRecord("zero", "task", InitialValue, None, heap,
                          [raised |-> FALSE, ret |-> zero(InitialValue),
                           heap |-> heap])
    /\ UNCHANGED <<d, out, heap, accValue, merged>>

\* the task adds a new value to its accumulator
TaskAdd ==
    /\ ~JobFailed
    /\ local.kind # "NotRunning"
    /\ Len(heap) < MaxObjects - 1
    /\ \E c \in Contents :
         LET pre == Append(heap, c)
             r == addInPlace(pre, local, List(Len(pre)))
         IN  /\ call' = CallRecord("addInPlace", "task", local,
                                   List(Len(pre)), pre, r)
             /\ heap' = r.heap
             /\ local' = IF r.raised THEN local ELSE r.ret
    /\ UNCHANGED <<d, out, accValue, merged>>

\* the task ends; the driver unpickles its partial value, a new object or
\* None, and merges it into the accumulator's value
TaskFinish ==
    /\ ~JobFailed
    /\ local.kind # "NotRunning"
    /\ LET pre == IF local.kind = "None" THEN heap
                  ELSE Append(heap, heap[local.id])
           partial == IF local.kind = "None" THEN None ELSE List(Len(pre))
           r == addInPlace(pre, accValue, partial)
       IN  /\ call' = CallRecord("addInPlace", "driver", accValue, partial,
                                 pre, r)
           /\ heap' = r.heap
           /\ accValue' = IF r.raised THEN accValue ELSE r.ret
           /\ merged' = Append(merged,
                               IF local.kind = "None"
                               THEN [kind |-> "None", contents |-> <<>>]
                               ELSE [kind |-> "list",
                                     contents |-> heap[local.id]])
    /\ local' = [kind |-> "NotRunning", id |-> 0]
    /\ UNCHANGED <<d, out>>

NextAcc == AddInPlaceCall \/ TaskStart \/ TaskAdd \/ TaskFinish

SpecAcc == InitAcc /\ [][NextAcc]_vars

\* the entries of the partial values that are not None, in merge order
RECURSIVE Flatten(_)
Flatten(parts) ==
    IF parts = <<>> THEN <<>>
    ELSE (IF Head(parts).kind = "None" THEN <<>> ELSE Head(parts).contents)
            \o Flatten(Tail(parts))

\* C7: addInPlace(val1, val2) returns val2 when val1 is None, and for every
\* other val1, an empty one included, returns val1 merged in place with
\* val2 (val1 += val2); zero(value) returns value.
C7_MergesUnlessNone ==
    /\ call.op = "zero" => call.ret = call.val1
    /\ (call.op = "addInPlace" /\ call.val1.kind = "None")
         => ~call.raised /\ call.ret = call.val2 /\ call.post = call.pre
    /\ (call.op = "addInPlace" /\ call.val1.kind = "list"
          /\ call.val2.kind = "list")
         => /\ ~call.raised
            /\ call.ret = call.val1
            /\ call.post[call.val1.id]
                 = call.pre[call.val1.id] \o call.pre[call.val2.id]

\* C8: with the accumulator registered with None, no merge in which an
\* argument is None raises, and the accumulator's value is the merge of the
\* partial values that are not None.
C8_NoneNeverRaises ==
    /\ (call.op = "addInPlace" /\ call.site # "direct"
          /\ (call.val1.kind = "None" \/ call.val2.kind = "None"))
         => ~call.raised
    /\ (local.kind = "NotRunning" /\ ~JobFailed)
         => (IF accValue.kind = "None" THEN <<>> ELSE heap[accValue.id])
               = Flatten(merged)

============================================================================
